---- MODULE Spec2Model ----
(***************************************************************************)
(* Resumable BNPL historical ingestion (scripts/bnpl/historical_ingestion) *)
(* IngestionProgressTracker and BNPLHistoricalIngester as a state machine. *)
(*                                                                         *)
(* A date is its day number in 2024 (date objects compare and add by day); *)
(* the progress lists hold ISO strings, modelled as <<year, month, day>>.  *)
(* The last_updated timestamp of the progress state is not modelled.       *)
(***************************************************************************)
EXTENDS Integers, Sequences, FiniteSets, TLC

\* ---------------------------------------------------------------- bounds
FirstDay == 30
NumDays == 3
MaxCount == 1
MaxTotal == 3
MaxCalls == 2
MaxRecords == 2
MaxBatchDays == 2
MaxRuns == 2
MaxFaults == 1
MaxDailyDays == 2
ThisYear == 2024
MaxClock == 2
MaxApiCalls == 2
MaxLines == 2
MaxIds == 1
MaxQueue == 2
MaxExperiments == 3

Dates == FirstDay..(FirstDay + NumDays - 1)
Counts == 0..MaxCount

\* ------------------------------------------------------- python helpers
\* x in list
Contains(seq, x) == \E i \in 1..Len(seq) : seq[i] = x

\* list.remove(x): drops the first occurrence
RECURSIVE Remove(_, _)
Remove(seq, x) ==
    IF seq = <<>> THEN <<>>
    ELSE IF Head(seq) = x THEN Tail(seq)
    ELSE <<Head(seq)>> \o Remove(Tail(seq), x)

ToSet(seq) == {seq[i] : i \in 1..Len(seq)}

\* date.isoformat(): "YYYY-MM-DD" of a day number of 2024
DaysInMonth == <<31, 29, 31, 30, 31, 30, 31, 31, 30, 31, 30, 31>>

RECURSIVE MonthDay(_, _)
MonthDay(m, r) ==
    IF r <= DaysInMonth[m] THEN <<m, r>>
    ELSE MonthDay(m + 1, r - DaysInMonth[m])

isoformat(d) == <<2024, MonthDay(1, d)[1], MonthDay(1, d)[2]>>

\* ------------------------------------------------- IngestionProgressTracker
VARIABLES
    progress,   \* self.progress of the live tracker
    file,       \* the progress file on disk
    ret,        \* the last tracker call: operation, arguments, returned value
    ncalls      \* tracker calls made so far (bounded)

trackerVars == <<progress, file, ret, ncalls>>

\* ---------------------------------------------------- BNPLHistoricalIngester
VARIABLES
    pc,                 \* where the ingester process is
    config,             \* IngestionConfig: start_date, end_date, batch_days
    remaining_batches,  \* the batches computed when the run started
    batch_idx,          \* the run loop's position in remaining_batches
    target_dates,       \* ingest_multi_day_batch: its argument
    n_records,          \* ingest_multi_day_batch: len(all_records)
    successful_dates,   \* ingest_multi_day_batch: successful_dates
    date_idx,           \* position of the marking loop in progress
    fault,              \* the exception the current attempt raised, if any
    load,               \* what the warehouse answered to this attempt's load
    summary,            \* the run loop's counters
    result,             \* what run_historical_ingestion returned
    attempts,           \* history: the batches attempted in this run, in order
    persisted,          \* history: dates some completed write put on disk
    io_faults,          \* saves that did not complete so far (bounded)
    runs,               \* invocations so far (bounded)
    calls,              \* history: the remote calls of this invocation
    api_answer          \* history: what the API handed this attempt

ingestVars == <<pc, config, remaining_batches, batch_idx, target_dates,
                n_records, successful_dates, date_idx, fault, load, summary,
                result, attempts, persisted, io_faults, runs, calls,
                api_answer>>

\* ------------------------------------------------------------ BNPLAPIClient
VARIABLES
    last_request_time,  \* self.last_request_time, in units of rate_limit_delay
    now,                \* time.time(), same unit
    posts,              \* session.post calls made so far
    api_calls,          \* get_bnpl_data calls made so far (bounded)
    api_call,           \* the arguments of the last get_bnpl_data call
    api_response,       \* what session.post answered to it, if it was sent
    api_result          \* what the call returned or raised

apiVars == <<last_request_time, now, posts, api_calls, api_call, api_response,
             api_result>>

\* ------------------------------------- MLRedisClient, RedisBigQueryUploader
VARIABLES
    redis_cache,    \* Redis: the keys that hold a value, per database
    redis_lists,    \* Redis: the list keys, per database and name
    warehouse,      \* BigQuery: the keys whose records were loaded, per table
    ml_ret          \* the last call of the cache client or the uploader,
                    \* and what it returned

mlVars == <<redis_cache, redis_lists, warehouse, ml_ret>>

\* ------------------------------------------- assign_variant_deterministic
VARIABLES
    assign_call,    \* the arguments of the last assign_variant_deterministic
    assign_ret,     \* the variant it returned
    pinned          \* an earlier call and its answer, kept for comparison

assignVars == <<assign_call, assign_ret, pinned>>

\* ---------------------------------------------------- SyntheticDataGenerator
VARIABLES
    overlay_call,       \* the experiments given to generate_production_overlays
    overlay_results,    \* the list it returned
    upload_calls        \* the _upload_dataframe calls it made: table names

overlayVars == <<overlay_call, overlay_results, upload_calls>>

\* the variables of the other components, which the ingestion leaves alone
externVars == <<apiVars, mlVars, assignVars, overlayVars>>

vars == <<progress, file, ret, ncalls, pc, config, remaining_batches,
          batch_idx, target_dates, n_records, successful_dates, date_idx,
          fault, load, summary, result, attempts, persisted, io_faults,
          runs, calls, api_answer, externVars>>

\* the constants of get_bnpl_data's validation and of the rate limit (one
\* unit of time is one rate_limit_delay)
MinYear == 2020
MaxVolume == 50000
rate_limit_delay == 1

\* A date argument is a string: in YYYY-MM-DD format or not.
Malformed == [well_formed |-> FALSE, year |-> 0, day |-> 0]

DateArgs ==
    {[well_formed |-> TRUE, year |-> y, day |-> 1] :
         y \in {MinYear - 1, MinYear, ThisYear + 1, ThisYear + 2}}
        \cup {Malformed}

Volumes == {0, MaxVolume, MaxVolume + 1}

\* date < date
before(a, b) == a.year < b.year \/ (a.year = b.year /\ a.day < b.day)

\* a _validate_date_range that does not compare the two dates
_validate_date_range_unordered(start_date, end_date) ==
    IF ~start_date.well_formed \/ ~end_date.well_formed THEN "ValueError"
    ELSE IF start_date.year < MinYear \/ end_date.year > ThisYear + 1
         THEN "ValueError"
    ELSE "ok"

\* _validate_date_range: the exception it raises, if any
_validate_date_range(start_date, end_date) ==
    IF ~start_date.well_formed \/ ~end_date.well_formed THEN "ValueError"
    ELSE IF before(end_date, start_date) THEN "ValueError"
    ELSE IF start_date.year < MinYear \/ end_date.year > ThisYear + 1
         THEN "ValueError"
    ELSE "ok"

\* the checks of get_bnpl_data before anything is sent
validate_inputs(start_date, end_date, base_daily_volume) ==
    IF _validate_date_range(start_date, end_date) # "ok" THEN "ValueError"
    ELSE IF base_daily_volume <= 0 \/ base_daily_volume > MaxVolume
         THEN "ValueError"
    ELSE "ok"

\* A line of the response text: whether, stripped, it starts with 'data: ',
\* whether it holds 'data: ' at all, and what follows the prefix: a JSON
\* document (told apart by a name) or text json.loads rejects.
Payloads == {"a", "b"}

LineKinds ==
    {[prefix |-> TRUE, token |-> TRUE, payload |-> x] : x \in Payloads \cup {"not_json"}}
        \cup {[prefix |-> FALSE, token |-> TRUE, payload |-> "not_json"],
              [prefix |-> FALSE, token |-> FALSE, payload |-> "not_json"]}

LineSeqs == UNION {[1..m -> LineKinds] : m \in 0..MaxLines}

\* The body as response.json() reads it, when no line holds 'data: ': a list
\* of documents, a single document, or no JSON at all.
JsonBodies ==
    {[is_json |-> TRUE, is_list |-> TRUE, items |-> l] :
         l \in UNION {[1..m -> Payloads] : m \in 0..MaxLines}}
        \cup {[is_json |-> TRUE, is_list |-> FALSE, items |-> <<x>>] : x \in Payloads}
        \cup {[is_json |-> FALSE, is_list |-> FALSE, items |-> <<>>]}

NotJson == [is_json |-> FALSE, is_list |-> FALSE, items |-> <<>>]

\* What session.post and raise_for_status can give: a RequestException
\* (connection failure, retries exhausted, HTTP error status), or a body of
\* lines of which one at least holds 'data: ', or another body.
HttpResponses ==
    {[status |-> "failed", lines |-> <<>>, json |-> NotJson]}
        \cup {[status |-> "ok", lines |-> l, json |-> NotJson] :
                  l \in {x \in LineSeqs : \E k \in 1..Len(x) : x[k].token}}
        \cup {[status |-> "ok", lines |-> <<>>, json |-> j] : j \in JsonBodies}

NoResponse == [status |-> "not_sent", lines |-> <<>>, json |-> NotJson]

\* 'data: ' in response_text
has_data_token(resp) == \E k \in 1..Len(resp.lines) : resp.lines[k].token

\* an SSE loop that gives up at the first line it cannot parse
RECURSIVE sse_loop_stops(_, _)
sse_loop_stops(lines, records) ==
    IF lines = <<>> THEN records
    ELSE IF Head(lines).prefix /\ Head(lines).payload = "not_json" THEN records
    ELSE IF Head(lines).prefix
         THEN sse_loop_stops(Tail(lines), Append(records, Head(lines).payload))
    ELSE sse_loop_stops(Tail(lines), records)

\* for line in lines: a 'data: ' line whose payload parses adds a record
RECURSIVE sse_loop(_, _)
sse_loop(lines, records) ==
    IF lines = <<>> THEN records
    ELSE IF Head(lines).prefix /\ Head(lines).payload # "not_json"
         THEN sse_loop(Tail(lines), Append(records, Head(lines).payload))
    ELSE sse_loop(Tail(lines), records)

ApiRaised(kind) == [kind |-> kind, records |-> <<>>]

NoApiResult == ApiRaised("none")

\* the try block of get_bnpl_data: the records returned, or SimtomAPIError
parse_response(resp) ==
    IF resp.status # "ok" THEN ApiRaised("SimtomAPIError")
    ELSE LET records ==
                 IF has_data_token(resp) THEN sse_loop(resp.lines, <<>>)
                 ELSE resp.json.items
         IN IF ~has_data_token(resp) /\ ~resp.json.is_json
            THEN ApiRaised("SimtomAPIError")
            ELSE IF records = <<>> THEN ApiRaised("SimtomAPIError")
            ELSE [kind |-> "records", records |-> records]

\* the parameters get_bnpl_data declares
GetBnplDataParameters ==
    {"start_date", "end_date", "base_daily_volume", "seed",
     "use_realistic_volumes"}

\* the keyword arguments test_connection passes to it
TestConnectionKeywords ==
    {"start_date", "end_date", "total_records", "rate_per_second"}

\* a Python call binds only keywords the function declares; any other
\* raises TypeError before the body runs
accepts_keywords(keywords) == keywords \subseteq GetBnplDataParameters

\* test_date = "2024-01-01"
ProbeDate == [well_formed |-> TRUE, year |-> 2024, day |-> 1]

\* base_daily_volume: int = 5000
DefaultVolume == 5000

\* what test_connection returns when the API would give this answer
test_connection(answer) ==
    /\ accepts_keywords(TestConnectionKeywords)
    /\ validate_inputs(ProbeDate, ProbeDate, DefaultVolume) = "ok"
    /\ parse_response(answer).kind = "records"

NoApiCall ==
    [start_date |-> Malformed, end_date |-> Malformed, base_daily_volume |-> 0]

\* BNPLAPIClient(): nothing requested yet; the clock is past the first delay
IdleClient ==
    /\ last_request_time = 0
    /\ now = rate_limit_delay
    /\ posts = 0
    /\ api_calls = 0
    /\ api_call = NoApiCall
    /\ api_response = NoResponse
    /\ api_result = NoApiResult

\* ---------------------------------------------------- the ML cache bridge
DB_TRANSACTIONS == 0
DB_PREDICTIONS == 1
Databases == {DB_TRANSACTIONS, DB_PREDICTIONS}

\* f"tx:{id}", f"pred:{id}"
CacheKey(prefix, id) == [prefix |-> prefix, id |-> id]

CacheKeys == {CacheKey(x, id) : x \in {"tx", "pred"}, id \in 1..MaxIds}

ListNames == {"upload_queue", "pred_upload_queue", "tx_upload_queue"}

\* what a Redis call of the cache client can do: the first that raises
CacheOutcomes == {"ok", "select_raised", "setex_raised", "lpush_raised"}

\* self.TTL_SECONDS, the expiry given to setex
TTL_SECONDS == 7 * 24 * 60 * 60

\* a cache client that pushes the key before it stores the value
cache_write_push_first(st, key, db, outcome) ==
    LET pushed == IF outcome \in {"ok", "setex_raised"}
                  THEN [st.lists EXCEPT ![db]["upload_queue"] = <<key>> \o @]
                  ELSE st.lists
        stored == IF outcome = "ok"
                  THEN [st.cache EXCEPT ![db] = @ \cup {key}]
                  ELSE st.cache
    IN [st EXCEPT !.cache = stored, !.lists = pushed]

\* cache_transaction / cache_prediction on database db: select, setex, lpush
cache_write(st, key, db, outcome) ==
    LET stored == IF outcome \in {"ok", "lpush_raised"}
                  THEN [st.cache EXCEPT ![db] = @ \cup {key}]
                  ELSE st.cache
        pushed == IF outcome = "ok"
                  THEN [st.lists EXCEPT ![db]["upload_queue"] = <<key>> \o @]
                  ELSE st.lists
    IN [st EXCEPT !.cache = stored, !.lists = pushed]

\* what goes wrong in one process_predictions / process_transactions, if
\* anything: a Redis call that raises or a load job that fails
UploadFaults ==
    {"none", "lrange_raises", "select_raises", "get_raises", "load_raises",
     "load_errors", "clean_raises"}

\* get_upload_queue_keys: lrange on the database the connection is on
get_upload_queue_keys(st, queue_name, failure) ==
    IF failure = "lrange_raises" THEN <<>> ELSE st.lists[st.selected][queue_name]

HasTxPrefix(key) == key.prefix = "tx"
HasPredPrefix(key) == key.prefix = "pred"

\* get_records_from_redis after its select: the keys that gave a record
RECURSIVE get_records_from_redis(_, _, _, _)
get_records_from_redis(st, keys, db, failure) ==
    IF keys = <<>> THEN <<>>
    ELSE LET rest == get_records_from_redis(st, Tail(keys), db, failure)
         IN IF failure # "get_raises" /\ Head(keys) \in st.cache[db]
            THEN <<Head(keys)>> \o rest
            ELSE rest

\* upload_to_bigquery: whether it returns True
upload_to_bigquery(records, failure) ==
    records = <<>> \/ failure \notin {"load_raises", "load_errors"}

\* clean_uploaded_keys: delete the keys in both databases, then the list
\* queue_name in the database selected last; an exception ends it, silently
clean_uploaded_keys(st, keys, queue_name, failure) ==
    IF failure = "clean_raises" THEN st
    ELSE [st EXCEPT !.cache = [db \in Databases |-> @[db] \ ToSet(keys)],
                    !.selected = DB_PREDICTIONS,
                    !.lists = [@ EXCEPT ![DB_PREDICTIONS][queue_name] = <<>>]]

\* process_predictions / process_transactions on the keys of one prefix
process(st, keys, db, table, queue_name, failure) ==
    IF keys = <<>>
    THEN [st |-> st, success |-> TRUE, raised |-> FALSE, uploaded |-> {},
          load_raised |-> FALSE]
    ELSE IF failure = "select_raises"
    THEN [st |-> st, success |-> FALSE, raised |-> TRUE, uploaded |-> {},
          load_raised |-> FALSE]
    ELSE LET sel == [st EXCEPT !.selected = db]
             records == get_records_from_redis(sel, keys, db, failure)
             success == upload_to_bigquery(records, failure)
             loaded == IF success
                       THEN [sel EXCEPT !.warehouse[table] = @ \cup ToSet(records)]
                       ELSE sel
         IN [st |-> IF success
                    THEN clean_uploaded_keys(loaded, keys, queue_name, failure)
                    ELSE loaded,
             success |-> success,
             raised |-> FALSE,
             uploaded |-> IF success THEN ToSet(records) ELSE {},
             load_raised |-> records # <<>> /\ failure = "load_raises"]

process_predictions(st, failure) ==
    process(st, SelectSeq(get_upload_queue_keys(st, "upload_queue", failure),
                          HasPredPrefix),
            DB_PREDICTIONS, "predictions", "pred_upload_queue", failure)

process_transactions(st, failure) ==
    process(st, SelectSeq(get_upload_queue_keys(st, "upload_queue", failure),
                          HasTxPrefix),
            DB_TRANSACTIONS, "transactions", "tx_upload_queue", failure)

\* the keys that held a value before and hold none after
removed(st, after) ==
    {key \in CacheKeys :
        \E db \in Databases : key \in st.cache[db] \ after.cache[db]}

\* run_daily_upload: the result it returns and the state it leaves
run_daily_upload(st, pred_failure, tx_failure) ==
    LET p == process_predictions(st, pred_failure)
        t == process_transactions(p.st, tx_failure)
    IN IF p.raised
       THEN [st |-> p.st,
             result |-> [op |-> "run_daily_upload",
                         predictions_success |-> FALSE,
                         transactions_success |-> FALSE,
                         errors |-> <<"select">>,
                         uploaded |-> {}, load_raised |-> FALSE,
                         deleted |-> removed(st, p.st)]]
       ELSE IF t.raised
       THEN [st |-> t.st,
             result |-> [op |-> "run_daily_upload",
                         predictions_success |-> p.success,
                         transactions_success |-> FALSE,
                         errors |-> <<"select">>,
                         uploaded |-> p.uploaded,
                         load_raised |-> p.load_raised,
                         deleted |-> removed(st, t.st)]]
       ELSE [st |-> t.st,
             result |-> [op |-> "run_daily_upload",
                         predictions_success |-> p.success,
                         transactions_success |-> t.success,
                         errors |-> <<>>,
                         uploaded |-> p.uploaded \cup t.uploaded,
                         load_raised |-> p.load_raised \/ t.load_raised,
                         deleted |-> removed(st, t.st)]]

NoMlCall == [op |-> "none"]

\* an empty Redis, an empty warehouse, nothing called
IdleBridge ==
    /\ redis_cache = [db \in Databases |-> {}]
    /\ redis_lists = [db \in Databases |-> [name \in ListNames |-> <<>>]]
    /\ warehouse = [table \in {"predictions", "transactions"} |-> {}]
    /\ ml_ret = NoMlCall

\* ------------------------------------------------- experiment assignments
\* hash_value % 1000000
HashRange == 1000000

\* allocation shares are written in tenths: 7 is the float 0.7
Tenth == HashRange \div 10

UserIds == {1, 2, 60656, 1519606}

ExperimentNames == {"free_shipping_threshold", "checkout_button_color"}

\* int(hashlib.md5(f"{user_id}_{experiment_name}".encode()).hexdigest(), 16)
\* % 1000000, for the inputs of the model
md5_mod(user_id, experiment_name) ==
    IF experiment_name = "free_shipping_threshold"
    THEN CASE user_id = 1 -> 522904
           [] user_id = 2 -> 752020
           [] user_id = 60656 -> 800000
           [] user_id = 1519606 -> 379211
    ELSE CASE user_id = 1 -> 746804
           [] user_id = 2 -> 79900
           [] user_id = 60656 -> 682170
           [] user_id = 1519606 -> 800000

VariantNames == <<"control", "treatment", "holdout">>

\* allocation vectors, in tenths; two of them sum to less than 1
Allocations == {<<5, 5>>, <<1, 7, 2>>, <<1, 2, 7>>, <<7, 2>>, <<2, 1>>}

\* a variants list of the same length
VariantsFor(allocation) == SubSeq(VariantNames, 1, Len(allocation))

RECURSIVE SumSeq(_)
SumSeq(seq) == IF seq = <<>> THEN 0 ELSE Head(seq) + SumSeq(Tail(seq))

\* cumulative_prob += alloc in IEEE doubles: where the running float sum of
\* the shares lies relative to the double of their decimal sum
\* (0.1 + 0.7 = 0.7999999999999999, 0.1 + 0.2 = 0.30000000000000004)
float_error(shares) ==
    IF shares \in {<<1, 7>>, <<7, 2>>} THEN -1
    ELSE IF shares \in {<<1, 2>>, <<2, 1>>} THEN 1
    ELSE 0

\* cumulative_prob after i additions
cumulative_prob(allocation, i) ==
    [tenths |-> SumSeq(SubSeq(allocation, 1, i)),
     error |-> float_error(SubSeq(allocation, 1, i))]

\* probability <= cumulative_prob, probability being hash / 1000000
probability_le(hash, cum) ==
    \/ hash < cum.tenths * Tenth
    \/ hash = cum.tenths * Tenth /\ cum.error >= 0

MinOf(S) == CHOOSE x \in S : \A y \in S : x <= y

\* the loop over zip(variants, allocation) and the fallback
assign_walk(hash, variants, allocation) ==
    LET n == IF Len(variants) < Len(allocation) THEN Len(variants)
             ELSE Len(allocation)
        hits == {i \in 1..n : probability_le(hash, cumulative_prob(allocation, i))}
    IN IF hits = {} THEN variants[1] ELSE variants[MinOf(hits)]

\* an assignment that leans on the answer given to the previous caller
assign_variant_by_previous(user_id, experiment_name, variants, allocation) ==
    IF assign_ret = variants[1] THEN variants[Len(variants)]
    ELSE assign_walk(md5_mod(user_id, experiment_name), variants, allocation)

assign_variant_deterministic(user_id, experiment_name, variants, allocation) ==
    assign_walk(md5_mod(user_id, experiment_name), variants, allocation)

AssignCalls ==
    {[user_id |-> u, experiment_name |-> e, variants |-> VariantsFor(a),
      allocation |-> a] : u \in UserIds, e \in ExperimentNames, a \in Allocations}

NoAssignCall == [user_id |-> 0]

NoPin == [call |-> NoAssignCall, ret |-> "none", others |-> FALSE]

IdleAssign ==
    /\ assign_call = NoAssignCall
    /\ assign_ret = "none"
    /\ pinned = NoPin

\* --------------------------------------------------------- overlay generator
\* the one experiment generate_experiment_overlay knows
ProductionExperiment == "free_shipping_threshold_test_v1_1_1"

OverlayExperiments == {ProductionExperiment, "checkout_button_color"}

\* what raises while one experiment is processed, if anything
OverlayFailures ==
    {"none", "users_query", "assignments", "assignments_upload", "effects",
     "overlay_upload"}

\* f"synthetic_{experiment_name}_orders", as its parts
synthetic_table(experiment_name) == <<"synthetic", experiment_name, "orders">>

assignments_table == <<"experiment_assignments">>

upload_call(position, table_name) ==
    [position |-> position, table_name |-> table_name]

\* generate_experiment_overlay for the experiment at a position of the list:
\* whether it raised, and the _upload_dataframe calls it made
generate_experiment_overlay(position, experiment_name, failure) ==
    IF failure = "users_query"
    THEN [raised |-> "query", uploads |-> <<>>]
    ELSE IF experiment_name # ProductionExperiment
    THEN [raised |-> "NotImplementedError", uploads |-> <<>>]
    ELSE IF failure = "assignments"
    THEN [raised |-> "assignments", uploads |-> <<>>]
    ELSE LET uploads == <<upload_call(position, assignments_table)>>
         IN IF failure = "assignments_upload"
            THEN [raised |-> "upload", uploads |-> uploads]
            ELSE IF failure = "effects"
            THEN [raised |-> "effects", uploads |-> uploads]
            ELSE [raised |-> "none", uploads |-> uploads]

\* the body of the loop of generate_production_overlays for one experiment
overlay_step(position, experiment_name, failure) ==
    LET overlay == generate_experiment_overlay(position, experiment_name, failure)
        table_name == synthetic_table(experiment_name)
        failed == [experiment_name |-> experiment_name, status |-> "failed",
                   table_name |-> <<>>]
    IN IF overlay.raised # "none"
       THEN [result |-> failed, uploads |-> overlay.uploads]
       ELSE [result |-> IF failure = "overlay_upload" THEN failed
                        ELSE [experiment_name |-> experiment_name,
                              status |-> "success", table_name |-> table_name],
             uploads |-> Append(overlay.uploads,
                                upload_call(position, table_name))]

\* generate_production_overlays: the results and the upload calls, in order
RECURSIVE generate_production_overlays(_, _, _)
generate_production_overlays(experiments, failures, position) ==
    IF position > Len(experiments) THEN [results |-> <<>>, uploads |-> <<>>]
    ELSE LET step == overlay_step(position, experiments[position],
                                  failures[position])
             rest == generate_production_overlays(experiments, failures,
                                                  position + 1)
         IN [results |-> <<step.result>> \o rest.results,
             uploads |-> step.uploads \o rest.uploads]

NoOverlayCall == [called |-> FALSE, experiments |-> <<>>]

IdleOverlay ==
    /\ overlay_call = NoOverlayCall
    /\ overlay_results = <<>>
    /\ upload_calls = <<>>

EmptyProgress ==
    [completed_dates |-> <<>>,
     failed_dates |-> <<>>,
     total_records_ingested |-> 0,
     ingestion_start_time |-> FALSE]

NoFile == [state |-> "absent", content |-> EmptyProgress]

\* open(progress_file, 'w') truncates before json.dump writes: a write either
\* completes, fails at open (file untouched), or fails after the truncation.
SaveOutcomes == {"written", "open_failed", "write_failed"}

\* A save of the running ingester can also be cut by the end of the process,
\* between the truncation and the end of the write.
MarkOutcomes == SaveOutcomes \cup {"killed_in_write"}

_load_progress(f) == IF f.state = "ok" THEN f.content ELSE EmptyProgress

save_progress(f, p, outcome) ==
    CASE outcome = "written" -> [state |-> "ok", content |-> p]
      [] outcome = "open_failed" -> f
      [] OTHER -> [state |-> "corrupt", content |-> EmptyProgress]

\* a mark_date_completed that leaves the failed list alone
mark_date_completed_keeps_failed(p, d, n) ==
    LET date_str == isoformat(d)
    IN [p EXCEPT !.completed_dates = IF ~Contains(@, date_str)
                                     THEN Append(@, date_str) ELSE @,
                 !.total_records_ingested = @ + n]

mark_date_completed(p, d, n) ==
    LET date_str == isoformat(d)
        c == IF ~Contains(p.completed_dates, date_str)
             THEN Append(p.completed_dates, date_str)
             ELSE p.completed_dates
        f == IF Contains(p.failed_dates, date_str)
             THEN Remove(p.failed_dates, date_str)
             ELSE p.failed_dates
    IN [p EXCEPT !.completed_dates = c,
                 !.failed_dates = f,
                 !.total_records_ingested = @ + n]

\* a mark_date_failed without the membership test
mark_date_failed_appends(p, d) ==
    [p EXCEPT !.failed_dates = Append(@, isoformat(d))]

mark_date_failed(p, d) ==
    LET date_str == isoformat(d)
    IN IF ~Contains(p.failed_dates, date_str)
       THEN [p EXCEPT !.failed_dates = Append(@, date_str)]
       ELSE p

is_date_completed(p, d) == Contains(p.completed_dates, isoformat(d))

RECURSIVE remaining_loop(_, _, _, _)
remaining_loop(p, current_date, end_date, all_dates) ==
    IF current_date <= end_date
    THEN remaining_loop(p, current_date + 1, end_date,
                        IF ~is_date_completed(p, current_date)
                        THEN Append(all_dates, current_date)
                        ELSE all_dates)
    ELSE all_dates

\* a get_remaining_dates whose loop stops before end_date
get_remaining_dates_exclusive(p, start_date, end_date) ==
    remaining_loop(p, start_date, end_date - 1, <<>>)

\* a get_remaining_dates that answers from the progress file
get_remaining_dates_of_file(p, start_date, end_date) ==
    remaining_loop(_load_progress(file), start_date, end_date, <<>>)

get_remaining_dates(p, start_date, end_date) ==
    remaining_loop(p, start_date, end_date, <<>>)

RECURSIVE batch_loop(_, _, _, _, _)
batch_loop(remaining_dates, idx, batch_days, current_batch, batches) ==
    IF idx > Len(remaining_dates) THEN batches
    ELSE LET date_item == remaining_dates[idx]
             cb == Append(current_batch, date_item)
         IN IF Len(cb) = batch_days
               \/ date_item = remaining_dates[Len(remaining_dates)]
            THEN batch_loop(remaining_dates, idx + 1, batch_days, <<>>,
                            Append(batches, <<cb[1], cb[Len(cb)], cb>>))
            ELSE batch_loop(remaining_dates, idx + 1, batch_days, cb, batches)

\* a batch loop that only emits full batches
RECURSIVE batch_loop_full_only(_, _, _, _, _)
batch_loop_full_only(remaining_dates, idx, batch_days, current_batch, batches) ==
    IF idx > Len(remaining_dates) THEN batches
    ELSE LET cb == Append(current_batch, remaining_dates[idx])
         IN IF Len(cb) = batch_days
            THEN batch_loop_full_only(remaining_dates, idx + 1, batch_days, <<>>,
                                      Append(batches, <<cb[1], cb[Len(cb)], cb>>))
            ELSE batch_loop_full_only(remaining_dates, idx + 1, batch_days, cb, batches)

get_remaining_batches_full_only(p, start_date, end_date, batch_days) ==
    LET remaining_dates == get_remaining_dates(p, start_date, end_date)
    IN IF remaining_dates = <<>> THEN <<>>
       ELSE batch_loop_full_only(remaining_dates, 1, batch_days, <<>>, <<>>)

get_remaining_batches(p, start_date, end_date, batch_days) ==
    LET remaining_dates == get_remaining_dates(p, start_date, end_date)
    IN IF remaining_dates = <<>> THEN <<>>
       ELSE batch_loop(remaining_dates, 1, batch_days, <<>>, <<>>)

start_ingestion(p) ==
    IF ~p.ingestion_start_time THEN [p EXCEPT !.ingestion_start_time = TRUE] ELSE p

\* no tracker call recorded
NoCall == [op |-> "none"]

\* ---------------------------------------------------- ingest_multi_day_batch
\* What the API can hand back for a batch: an exception (SimtomAPIError, or the
\* client's ValueError), or a non-empty list of records. A record is told
\* apart by what validation and transform read of it.
RecordKinds == {"valid", "no_timestamp", "bad_timestamp", "no_amount"}

RawRecordLists == UNION {[1..m -> RecordKinds] : m \in 1..MaxRecords}

ApiResponses ==
    {[raised |-> TRUE, records |-> <<>>]}
        \cup {[raised |-> FALSE, records |-> r] : r \in RawRecordLists}

\* a transform that leaves out the records it cannot parse
RECURSIVE transform_records_skips_bad(_)
transform_records_skips_bad(raw_records) ==
    IF raw_records = <<>> THEN [error |-> FALSE, records |-> <<>>]
    ELSE LET rest == transform_records_skips_bad(Tail(raw_records))
         IN IF Head(raw_records) \in {"no_timestamp", "bad_timestamp"}
            THEN rest
            ELSE [error |-> FALSE, records |-> <<"row">> \o rest.records]

\* transform_records: raises on the first record without a parseable _timestamp
RECURSIVE transform_records(_)
transform_records(raw_records) ==
    IF raw_records = <<>> THEN [error |-> FALSE, records |-> <<>>]
    ELSE IF Head(raw_records) \in {"no_timestamp", "bad_timestamp"}
         THEN [error |-> TRUE, records |-> <<>>]
         ELSE LET rest == transform_records(Tail(raw_records))
              IN IF rest.error THEN rest
                 ELSE [error |-> FALSE, records |-> <<"row">> \o rest.records]

\* The part of the try block up to the load: the exception it raises, if any
fetch_fault(resp) ==
    IF resp.raised THEN "api_error"
    ELSE IF resp.records = <<>> THEN "no_records"
    ELSE IF resp.records[1] \in {"no_timestamp", "no_amount"} THEN "early_validation"
    ELSE IF transform_records(resp.records).error THEN "transform_error"
    ELSE "none"

\* What the warehouse can answer: the job cannot be created, job.result()
\* raises, the job carries errors, or it is done with some output_rows
\* (possibly None); then the count query raises or returns some row count.
\* a row count: none, the submitted count, or another one
RowCounts(submitted) == {0, submitted, submitted + 1}

NoLoad ==
    [job |-> "not_submitted", has_output_rows |-> FALSE, output_rows |-> 0,
     query |-> "not_run", actual_rows |-> 0]

LoadOutcomes(submitted) ==
    {[NoLoad EXCEPT !.job = jb] : jb \in {"submit_raised", "result_raised", "errors"}}
        \cup {[NoLoad EXCEPT !.job = "done"]}
        \cup {[NoLoad EXCEPT !.job = "done", !.has_output_rows = TRUE]}
        \cup {[NoLoad EXCEPT !.job = "done", !.has_output_rows = TRUE,
                             !.output_rows = r, !.query = "raised"] :
                   r \in RowCounts(submitted) \ {0}}
        \cup {[NoLoad EXCEPT !.job = "done", !.has_output_rows = TRUE,
                             !.output_rows = r, !.query = "returned",
                             !.actual_rows = a] :
                   r \in RowCounts(submitted) \ {0}, a \in RowCounts(submitted)}

\* a load check that also raises when a count differs from the submitted one
load_fault_strict(out, submitted) ==
    IF out.job = "submit_raised" THEN "load_submit_error"
    ELSE IF out.job = "result_raised" THEN "load_job_failed"
    ELSE IF out.job = "errors" THEN "load_job_errors"
    ELSE IF ~out.has_output_rows THEN "missing_output_rows"
    ELSE IF out.output_rows # submitted THEN "zero_rows_inserted"
    ELSE IF out.query = "raised" THEN "verification_query_error"
    ELSE IF out.actual_rows # submitted THEN "zero_rows_found"
    ELSE "none"

\* The load job and its verification: the exception they raise, if any. A
\* count that differs from the submitted one is logged, nothing more.
load_fault(out, submitted) ==
    IF out.job = "submit_raised" THEN "load_submit_error"
    ELSE IF out.job = "result_raised" THEN "load_job_failed"
    ELSE IF out.job = "errors" THEN "load_job_errors"
    ELSE IF ~out.has_output_rows THEN "missing_output_rows"
    ELSE IF out.output_rows = 0 THEN "zero_rows_inserted"
    ELSE IF out.query = "raised" THEN "verification_query_error"
    ELSE IF out.actual_rows = 0 THEN "zero_rows_found"
    ELSE "none"

\* an except handler that walks every date of the run
failed_loop_dates_all(batches, idx) ==
    LET RECURSIVE all_dates(_)
        all_dates(bs) == IF bs = <<>> THEN <<>> ELSE Head(bs)[3] \o all_dates(Tail(bs))
    IN all_dates(batches)

\* The dates the except handler walks: target_dates
failed_loop_dates(batches, idx) == batches[idx][3]

\* "if target_date not in successful_dates": the first turn at or after
\* `from` that marks a date, 0 if there is none
RECURSIVE next_to_mark(_, _, _)
next_to_mark(dates, successful, from) ==
    IF from > Len(dates) THEN 0
    ELSE IF ~Contains(successful, dates[from]) THEN from
    ELSE next_to_mark(dates, successful, from + 1)

\* where the except handler starts: at its first marking turn, or at the raise
EnterHandler(batches, idx, successful) ==
    LET first == next_to_mark(failed_loop_dates(batches, idx), successful, 1)
    IN IF first = 0
       THEN pc' = "batch_raised" /\ date_idx' = 0
       ELSE pc' = "mark_failed" /\ date_idx' = first

\* ------------------------------------------------------ the run's batch loop
daily_batches(dates) == [k \in 1..Len(dates) |-> <<dates[k], dates[k], <<dates[k]>>>>]

\* run_historical_ingestion: multi-day batches if batch_days > 1, else one
\* attempt per remaining date
select_batches(p, cfg) ==
    IF cfg.batch_days > 1
    THEN get_remaining_batches(p, cfg.start_date, cfg.end_date, cfg.batch_days)
    ELSE daily_batches(get_remaining_dates(p, cfg.start_date, cfg.end_date))

\* an except clause that gives up the rest of the run
next_batch_after_failure_break(idx, n) == n + 1

\* except Exception: ... continue
next_batch_after_failure(idx, n) == idx + 1

ZeroSummary == [successful |-> 0, failed |-> 0, total_records |-> 0]

NoResult == [status |-> "none"]

nothing_to_do(p) ==
    [status |-> "completed", total_records |-> p.total_records_ingested,
     message |-> "already completed"]

\* a summary that reports the tracker's cumulative total as the run's
final_summary_overall(sm, p) ==
    [status |-> IF sm.failed = 0 THEN "completed" ELSE "partial",
     successful |-> sm.successful,
     failed |-> sm.failed,
     total_records_ingested |-> p.total_records_ingested,
     overall_progress |-> p.total_records_ingested]

final_summary(sm, p) ==
    [status |-> IF sm.failed = 0 THEN "completed" ELSE "partial",
     successful |-> sm.successful,
     failed |-> sm.failed,
     total_records_ingested |-> sm.total_records,
     overall_progress |-> p.total_records_ingested]

\* The requests of the model: a range that starts on the first day, of at
\* most MaxDailyDays days when every date is a batch of its own
Configs ==
    {c \in [start_date : {FirstDay}, end_date : Dates, batch_days : 1..MaxBatchDays] :
        c.batch_days = 1 => c.end_date < c.start_date + MaxDailyDays}

\* The remote calls an invocation has made: api_client.get_bnpl_data,
\* bq_client.get_table, load_table_from_json, the count query; whether
\* every answer so far was a clean one and, as long as that is so, the
\* number of records the API returned.
ZeroCalls ==
    [api |-> 0, get_table |-> 0, load |-> 0, query |-> 0, records |-> 0,
     all_accepted |-> TRUE]

\* an API answer: an exception, or records all valid, or records of which
\* one has no parseable _timestamp, or records with another defect
answer_kind(resp) ==
    IF resp.raised THEN "raised"
    ELSE IF \E k \in 1..Len(resp.records) :
                resp.records[k] \in {"no_timestamp", "bad_timestamp"}
         THEN "bad_timestamp"
    ELSE IF \E k \in 1..Len(resp.records) : resp.records[k] # "valid"
         THEN "other_defect"
    ELSE "valid"

\* the warehouse took the load: job done, both counts the submitted one
accepted(out, submitted) ==
    /\ out.job = "done"
    /\ out.has_output_rows
    /\ out.output_rows = submitted
    /\ out.query = "returned"
    /\ out.actual_rows = submitted

IdleIngester ==
    /\ pc = "constructed"
    /\ remaining_batches = <<>>
    /\ batch_idx = 0
    /\ target_dates = <<>>
    /\ n_records = 0
    /\ successful_dates = <<>>
    /\ date_idx = 0
    /\ fault = "none"
    /\ load = NoLoad
    /\ summary = ZeroSummary
    /\ result = NoResult
    /\ attempts = <<>>
    /\ calls = ZeroCalls
    /\ api_answer = "none"

\* BNPLHistoricalIngester(config) on an absent progress file
Init ==
    /\ file = NoFile
    /\ progress = _load_progress(file)
    /\ ret = NoCall
    /\ ncalls = 0
    /\ IdleIngester
    /\ IdleClient
    /\ IdleBridge
    /\ IdleAssign
    /\ IdleOverlay
    /\ config \in Configs
    /\ persisted = {}
    /\ io_faults = 0
    /\ runs = 1

persisted_after(p, outcome) ==
    IF outcome = "written" THEN persisted \cup ToSet(p.completed_dates) ELSE persisted

\* self.save_progress() of the running ingester, with its outcome
Save(outcome) ==
    /\ outcome # "written" => io_faults < MaxFaults
    /\ file' = save_progress(file, progress', outcome)
    /\ persisted' = persisted_after(progress', outcome)
    /\ io_faults' = IF outcome = "written" THEN io_faults ELSE io_faults + 1

\* run_historical_ingestion up to the first attempt: start_ingestion,
\* setup_bigquery_table, the choice of the batches
RunStart(outcome) ==
    /\ pc = "constructed"
    /\ progress' = start_ingestion(progress)
    /\ IF progress' # progress
       THEN Save(outcome)
       ELSE UNCHANGED <<file, persisted, io_faults>>
    /\ remaining_batches' = select_batches(progress', config)
    /\ summary' = ZeroSummary
    /\ attempts' = <<>>
    /\ IF remaining_batches' = <<>>
       THEN /\ pc' = "returned"
            /\ result' = nothing_to_do(progress')
            /\ batch_idx' = 0
       ELSE /\ pc' = "fetch"
            /\ result' = NoResult
            /\ batch_idx' = 1
    /\ calls' = [calls EXCEPT !.get_table = @ + 1]
    /\ UNCHANGED <<ret, ncalls, config, externVars, target_dates, n_records,
                   successful_dates, date_idx, fault, load, runs, api_answer>>

\* ingest_multi_day_batch: the API call, early validation, transform
Fetch(resp) ==
    /\ pc = "fetch"
    /\ target_dates' = remaining_batches[batch_idx][3]
    /\ attempts' = Append(attempts, batch_idx)
    /\ fault' = fetch_fault(resp)
    /\ load' = NoLoad
    /\ IF fault' = "none"
       THEN /\ n_records' = Len(transform_records(resp.records).records)
            /\ successful_dates' = target_dates'
            /\ pc' = "load"
            /\ date_idx' = 0
       ELSE /\ n_records' = 0
            /\ successful_dates' = <<>>
            /\ EnterHandler(remaining_batches, batch_idx, successful_dates')
    /\ api_answer' = answer_kind(resp)
    /\ calls' = [calls EXCEPT !.api = @ + 1,
                              !.records = IF calls.all_accepted /\ api_answer' = "valid"
                                          THEN @ + Len(resp.records) ELSE 0,
                              !.all_accepted = @ /\ api_answer' = "valid"]
    /\ UNCHANGED <<progress, file, ret, ncalls, config, externVars, remaining_batches,
                   batch_idx, summary, result, persisted, io_faults, runs>>

\* ingest_multi_day_batch: the load job, the wait, the verification
Load(out) ==
    /\ pc = "load"
    /\ load' = out
    /\ fault' = load_fault(out, n_records)
    /\ IF fault' = "none"
       THEN pc' = "mark_completed" /\ date_idx' = 1
       ELSE EnterHandler(remaining_batches, batch_idx, successful_dates)
    /\ calls' = [calls EXCEPT !.load = @ + 1,
                              !.query = IF out.query = "not_run" THEN @ ELSE @ + 1,
                              !.records = IF calls.all_accepted /\ accepted(out, n_records)
                                          THEN @ ELSE 0,
                              !.all_accepted = @ /\ accepted(out, n_records)]
    /\ UNCHANGED <<progress, file, ret, ncalls, config, externVars, remaining_batches,
                   batch_idx, target_dates, n_records, successful_dates,
                   summary, result, attempts, persisted, io_faults, runs,
                   api_answer>>

\* What is left of a terminated process: nothing but the file. Its tracker
\* state and the batch it was working on are kept to state what it had done.
Killed ==
    /\ pc' = "terminated"
    /\ n_records' = 0
    /\ successful_dates' = <<>>
    /\ date_idx' = 0
    /\ fault' = "none"
    /\ load' = NoLoad
    /\ summary' = ZeroSummary
    /\ attempts' = <<>>
    /\ calls' = ZeroCalls
    /\ api_answer' = "none"
    /\ UNCHANGED <<ret, ncalls, config, externVars, remaining_batches, batch_idx, result, runs>>

InFlight == {"fetch", "load", "mark_completed", "mark_failed",
             "batch_returned", "batch_raised"}

\* one turn of "for target_date in successful_dates: mark_date_completed"
MarkCompletedStep(outcome) ==
    /\ pc = "mark_completed"
    /\ progress' = mark_date_completed(progress, successful_dates[date_idx],
                                       n_records \div Len(successful_dates))
    /\ Save(outcome)
    /\ IF outcome = "killed_in_write"
       THEN Killed /\ UNCHANGED target_dates
       ELSE /\ IF date_idx = Len(successful_dates)
               THEN pc' = "batch_returned" /\ UNCHANGED date_idx
               ELSE pc' = "mark_completed" /\ date_idx' = date_idx + 1
            /\ UNCHANGED <<ret, ncalls, config, externVars, remaining_batches, batch_idx,
                           target_dates, n_records, successful_dates, fault,
                           load, summary, result, attempts, runs, calls,
                           api_answer>>

\* one marking turn of the except handler's loop (a turn on a date of
\* successful_dates changes nothing and is passed over); after the last
\* turn the exception is re-raised
MarkFailedStep(outcome) ==
    /\ pc = "mark_failed"
    /\ LET dates == failed_loop_dates(remaining_batches, batch_idx)
           next == next_to_mark(dates, successful_dates, date_idx + 1)
       IN /\ progress' = mark_date_failed(progress, dates[date_idx])
          /\ Save(outcome)
          /\ IF outcome = "killed_in_write"
             THEN Killed /\ UNCHANGED target_dates
             ELSE /\ IF next = 0
                     THEN pc' = "batch_raised" /\ UNCHANGED date_idx
                     ELSE pc' = "mark_failed" /\ date_idx' = next
                  /\ UNCHANGED <<ret, ncalls, config, externVars, remaining_batches,
                                 batch_idx, target_dates, n_records,
                                 successful_dates, fault, load, summary,
                                 result, attempts, runs, calls, api_answer>>

\* the run loop moves on to batch `next`, or returns the summary; the
\* attempt's locals are gone
Advance(next) ==
    /\ batch_idx' = next
    /\ IF next > Len(remaining_batches)
       THEN pc' = "returned" /\ result' = final_summary(summary', progress)
       ELSE pc' = "fetch" /\ UNCHANGED result
    /\ target_dates' = <<>>
    /\ n_records' = 0
    /\ successful_dates' = <<>>
    /\ date_idx' = 0
    /\ fault' = "none"
    /\ load' = NoLoad
    /\ api_answer' = "none"
    /\ UNCHANGED <<progress, file, ret, ncalls, config, externVars, remaining_batches,
                   attempts, persisted, io_faults, runs, calls>>

\* the attempt returned its record count
BatchSucceeded ==
    /\ pc = "batch_returned"
    /\ summary' = [summary EXCEPT !.successful = @ + 1,
                                  !.total_records = @ + n_records]
    /\ Advance(batch_idx + 1)

\* the attempt raised: except Exception
BatchFailed ==
    /\ pc = "batch_raised"
    /\ summary' = [summary EXCEPT !.failed = @ + 1]
    /\ Advance(next_batch_after_failure(batch_idx, Len(remaining_batches)))

\* the process is terminated between two steps of a run
Terminate ==
    /\ pc \in InFlight
    /\ target_dates' = remaining_batches[batch_idx][3]
    /\ Killed
    /\ UNCHANGED <<progress, file, persisted, io_faults>>

\* the next invocation, same request, same progress file
Restart ==
    /\ pc \in {"terminated", "returned"}
    /\ runs < MaxRuns
    /\ runs' = runs + 1
    /\ progress' = _load_progress(file)
    /\ pc' = "constructed"
    /\ remaining_batches' = <<>>
    /\ batch_idx' = 0
    /\ target_dates' = <<>>
    /\ n_records' = 0
    /\ successful_dates' = <<>>
    /\ date_idx' = 0
    /\ fault' = "none"
    /\ load' = NoLoad
    /\ summary' = ZeroSummary
    /\ result' = NoResult
    /\ attempts' = <<>>
    /\ calls' = ZeroCalls
    /\ api_answer' = "none"
    /\ UNCHANGED <<file, ret, ncalls, config, externVars, persisted, io_faults>>

Next ==
    \/ \E o \in SaveOutcomes : RunStart(o)
    \/ \E resp \in ApiResponses : Fetch(resp)
    \/ \E out \in LoadOutcomes(n_records) : Load(out)
    \/ \E o \in MarkOutcomes : MarkCompletedStep(o)
    \/ \E o \in MarkOutcomes : MarkFailedStep(o)
    \/ BatchSucceeded
    \/ BatchFailed
    \/ Terminate
    \/ Restart

Spec == Init /\ [][Next]_vars

\* ------------------------------- a run on the progress file of earlier runs
\* the dates of a set as the list a tracker appends them to, in date order
RECURSIVE completed_in_order(_)
completed_in_order(S) ==
    IF S = {} THEN <<>>
    ELSE LET first == CHOOSE d \in S : \A e \in S : d <= e
         IN <<isoformat(first)>> \o completed_in_order(S \ {first})

\* the progress files earlier invocations, for whatever range, can have
\* written: some dates completed, none failed
EarlierFiles ==
    {[state |-> "ok",
      content |-> [EmptyProgress EXCEPT
                       !.completed_dates = completed_in_order(S),
                       !.ingestion_start_time = TRUE]] : S \in SUBSET Dates}

\* the range the attempt on a batch requests from the API:
\* target_dates[0] .. target_dates[-1]
requested_range(dates) == dates[1]..dates[Len(dates)]

\* BNPLHistoricalIngester(config) on a progress file that exists
InitResume ==
    /\ file \in EarlierFiles
    /\ progress = _load_progress(file)
    /\ ret = NoCall
    /\ ncalls = 0
    /\ IdleIngester
    /\ IdleClient
    /\ IdleBridge
    /\ IdleAssign
    /\ IdleOverlay
    /\ config \in Configs
    /\ persisted = ToSet(progress.completed_dates)
    /\ io_faults = 0
    /\ runs = 1

SpecResume == InitResume /\ [][Next]_vars

\* --------------------------------------- the tracker driven by any caller

\* The queries leave the tracker as it is and ret keeps what the latest call
\* returned: a query is the last call recorded of a tracker state, since a
\* call made after it acts on the very state the query was made on.
QueryOps == {"get_remaining_dates", "get_remaining_batches"}

InitTracker ==
    /\ progress = _load_progress(NoFile)
    /\ file = NoFile
    /\ ret = NoCall
    /\ ncalls = 0
    /\ IdleIngester
    /\ IdleClient
    /\ IdleBridge
    /\ IdleAssign
    /\ IdleOverlay
    /\ config = [start_date |-> FirstDay, end_date |-> FirstDay, batch_days |-> 1]
    /\ persisted = {}
    /\ io_faults = 0
    /\ runs = 0

MarkDateCompleted(d, n, outcome) ==
    /\ ret.op \notin QueryOps
    /\ ncalls < MaxCalls
    /\ progress.total_records_ingested + n <= MaxTotal
    /\ progress' = mark_date_completed(progress, d, n)
    /\ file' = save_progress(file, progress', outcome)
    /\ ret' = [op |-> "mark_date_completed", date |-> d, count |-> n]
    /\ ncalls' = ncalls + 1
    /\ UNCHANGED <<ingestVars, externVars>>

MarkDateFailed(d, outcome) ==
    /\ ret.op \notin QueryOps
    /\ ncalls < MaxCalls
    /\ progress' = mark_date_failed(progress, d)
    /\ file' = save_progress(file, progress', outcome)
    /\ ret' = [op |-> "mark_date_failed", date |-> d]
    /\ ncalls' = ncalls + 1
    /\ UNCHANGED <<ingestVars, externVars>>

GetRemainingDates(s, e) ==
    /\ ret.op \notin QueryOps
    /\ ret' = [op |-> "get_remaining_dates", start |-> s, end |-> e,
               value |-> get_remaining_dates(progress, s, e)]
    /\ UNCHANGED <<progress, file, ncalls>>
    /\ UNCHANGED <<ingestVars, externVars>>

GetRemainingBatches(s, e, k) ==
    /\ ret.op \notin QueryOps
    /\ ret' = [op |-> "get_remaining_batches", start |-> s, end |-> e,
               batch_days |-> k,
               value |-> get_remaining_batches(progress, s, e, k)]
    /\ UNCHANGED <<progress, file, ncalls>>
    /\ UNCHANGED <<ingestVars, externVars>>

NextTracker ==
    \/ \E d \in Dates, n \in Counts, o \in SaveOutcomes : MarkDateCompleted(d, n, o)
    \/ \E d \in Dates, o \in SaveOutcomes : MarkDateFailed(d, o)
    \/ \E s \in Dates, e \in Dates : GetRemainingDates(s, e)
    \/ \E s \in Dates, e \in Dates, k \in 0..NumDays : GetRemainingBatches(s, e, k)

SpecTracker == InitTracker /\ [][NextTracker]_vars

\* ------------------------------------------ the API client and its callers
InitApi == InitTracker

\* time passes
ClockTick ==
    /\ now < MaxClock
    /\ now' = now + 1
    /\ UNCHANGED <<last_request_time, posts, api_calls, api_call, api_response,
                   api_result>>
    /\ UNCHANGED <<trackerVars, ingestVars, mlVars, assignVars, overlayVars>>

\* _enforce_rate_limit: the time at which it returns
time_after_rate_limit ==
    IF now - last_request_time < rate_limit_delay
    THEN last_request_time + rate_limit_delay
    ELSE now

GetBnplData(start_date, end_date, base_daily_volume) ==
    /\ api_calls < MaxApiCalls
    /\ api_calls' = api_calls + 1
    /\ api_call' = [start_date |-> start_date, end_date |-> end_date,
                    base_daily_volume |-> base_daily_volume]
    /\ IF validate_inputs(start_date, end_date, base_daily_volume) # "ok"
       THEN /\ api_result' = ApiRaised("ValueError")
            /\ api_response' = NoResponse
            /\ UNCHANGED <<last_request_time, now, posts>>
       ELSE /\ now' = time_after_rate_limit
            /\ last_request_time' = now'
            /\ posts' = posts + 1
            /\ api_response' \in HttpResponses
            /\ api_result' = parse_response(api_response')
    /\ UNCHANGED <<trackerVars, ingestVars, mlVars, assignVars, overlayVars>>

\* test_connection, the API being ready to give this answer to the probe
TestConnection(answer) ==
    /\ api_call' = [start_date |-> ProbeDate, end_date |-> ProbeDate,
                    base_daily_volume |-> DefaultVolume,
                    would_answer |-> answer]
    /\ api_result' = [kind |-> "test_connection", records |-> <<>>,
                      value |-> test_connection(answer)]
    /\ IF /\ accepts_keywords(TestConnectionKeywords)
          /\ validate_inputs(ProbeDate, ProbeDate, DefaultVolume) = "ok"
       THEN /\ now' = time_after_rate_limit
            /\ last_request_time' = now'
            /\ posts' = posts + 1
            /\ api_response' = answer
       ELSE /\ api_response' = NoResponse
            /\ UNCHANGED <<last_request_time, now, posts>>
    /\ UNCHANGED api_calls
    /\ UNCHANGED <<trackerVars, ingestVars, mlVars, assignVars, overlayVars>>

NextApi ==
    \/ ClockTick
    \/ \E s \in DateArgs, e \in DateArgs, v \in Volumes : GetBnplData(s, e, v)

SpecApi == InitApi /\ [][NextApi]_vars

\* the connection test, against every answer of the API, next to the same
\* request made through the parameters get_bnpl_data declares
NextProbe ==
    \/ ClockTick
    \/ \E answer \in HttpResponses : TestConnection(answer)
    \/ GetBnplData(ProbeDate, ProbeDate, DefaultVolume)

SpecProbe == InitApi /\ [][NextProbe]_vars

\* --------------------------------------- the ML cache bridge and its users
InitBridge == InitTracker

\* the Redis server and the warehouse as the calls of a process see them
bridge_state(selected) ==
    [cache |-> redis_cache, lists |-> redis_lists, warehouse |-> warehouse,
     selected |-> selected]

\* the keys waiting in upload_queue, whichever database holds the list
QueueLength ==
    Len(redis_lists[DB_TRANSACTIONS]["upload_queue"])
        + Len(redis_lists[DB_PREDICTIONS]["upload_queue"])

\* cache_transaction: the transaction goes to database 0 and its key to the
\* upload queue; any exception makes it return False
CacheTransaction(id, outcome) ==
    /\ QueueLength < MaxQueue
    /\ LET key == CacheKey("tx", id)
           after == cache_write(bridge_state(DB_TRANSACTIONS), key,
                                DB_TRANSACTIONS, outcome)
       IN /\ redis_cache' = after.cache
          /\ redis_lists' = after.lists
          /\ ml_ret' = [op |-> "cache_transaction", key |-> key,
                        ttl |-> TTL_SECONDS, failed_at |-> outcome,
                        value |-> outcome = "ok"]
    /\ UNCHANGED warehouse
    /\ UNCHANGED <<trackerVars, ingestVars, apiVars, assignVars, overlayVars>>

\* cache_prediction: the same on database 1
CachePrediction(id, outcome) ==
    /\ QueueLength < MaxQueue
    /\ LET key == CacheKey("pred", id)
           after == cache_write(bridge_state(DB_PREDICTIONS), key,
                                DB_PREDICTIONS, outcome)
       IN /\ redis_cache' = after.cache
          /\ redis_lists' = after.lists
          /\ ml_ret' = [op |-> "cache_prediction", key |-> key,
                        ttl |-> TTL_SECONDS, failed_at |-> outcome,
                        value |-> outcome = "ok"]
    /\ UNCHANGED warehouse
    /\ UNCHANGED <<trackerVars, ingestVars, apiVars, assignVars, overlayVars>>

\* a cached value reaches its expiry
Expire(db, key) ==
    /\ key \in redis_cache[db]
    /\ redis_cache' = [redis_cache EXCEPT ![db] = @ \ {key}]
    /\ UNCHANGED <<redis_lists, warehouse, ml_ret>>
    /\ UNCHANGED <<trackerVars, ingestVars, apiVars, assignVars, overlayVars>>

\* main(): a new uploader, its connection on the database of REDIS_URL, runs
\* the daily upload.  A failure is drawn only for a step that has keys to
\* work on.
RunDailyUpload(url_db, pred_failure, tx_failure) ==
    /\ LET st == bridge_state(url_db)
           p == process_predictions(st, pred_failure).st
       IN /\ SelectSeq(get_upload_queue_keys(st, "upload_queue", "none"),
                       HasPredPrefix) = <<>> => pred_failure = "none"
          /\ SelectSeq(get_upload_queue_keys(p, "upload_queue", "none"),
                       HasTxPrefix) = <<>> => tx_failure = "none"
    /\ LET run == run_daily_upload(bridge_state(url_db), pred_failure, tx_failure)
       IN /\ redis_cache' = run.st.cache
          /\ redis_lists' = run.st.lists
          /\ warehouse' = run.st.warehouse
          /\ ml_ret' = run.result
    /\ UNCHANGED <<trackerVars, ingestVars, apiVars, assignVars, overlayVars>>

NextBridge ==
    \/ \E id \in 1..MaxIds, o \in CacheOutcomes : CacheTransaction(id, o)
    \/ \E id \in 1..MaxIds, o \in CacheOutcomes : CachePrediction(id, o)
    \/ \E db \in Databases, key \in CacheKeys : Expire(db, key)
    \/ \E db \in Databases, fp \in UploadFaults, ft \in UploadFaults :
          RunDailyUpload(db, fp, ft)

SpecBridge == InitBridge /\ [][NextBridge]_vars

\* ------------------------------------------------- experiment assignments
InitAssign == InitTracker

\* one call of assign_variant_deterministic; the observer may keep it
AssignVariant(call, pin) ==
    /\ assign_call' = call
    /\ assign_ret' = assign_variant_deterministic(
                         call.user_id, call.experiment_name, call.variants,
                         call.allocation)
    /\ pinned' = IF pin
                 THEN [call |-> call, ret |-> assign_ret', others |-> FALSE]
                 ELSE IF pinned # NoPin /\ call # pinned.call
                 THEN [pinned EXCEPT !.others = TRUE]
                 ELSE pinned
    /\ UNCHANGED <<trackerVars, ingestVars, apiVars, mlVars, overlayVars>>

NextAssign == \E call \in AssignCalls, pin \in BOOLEAN : AssignVariant(call, pin)

SpecAssign == InitAssign /\ [][NextAssign]_vars

\* --------------------------------------------------------- overlay generator
InitOverlay == InitTracker

\* one call of generate_production_overlays.  A failure is drawn only where
\* the experiment gets that far.
GenerateProductionOverlays(experiments, failures) ==
    /\ ~overlay_call.called
    /\ \A i \in 1..Len(experiments) :
          experiments[i] # ProductionExperiment
              => failures[i] \in {"none", "users_query"}
    /\ overlay_call' = [called |-> TRUE, experiments |-> experiments]
    /\ LET out == generate_production_overlays(experiments, failures, 1)
       IN /\ overlay_results' = out.results
          /\ upload_calls' = out.uploads
    /\ UNCHANGED <<trackerVars, ingestVars, apiVars, mlVars, assignVars>>

NextOverlay ==
    \E n \in 0..MaxExperiments :
        \E experiments \in [1..n -> OverlayExperiments],
           failures \in [1..n -> OverlayFailures] :
            GenerateProductionOverlays(experiments, failures)

SpecOverlay == InitOverlay /\ [][NextOverlay]_vars

\* ------------------------------------------------------ tracker properties
CompletedSet(p) == ToSet(p.completed_dates)
FailedSet(p) == ToSet(p.failed_dates)

RECURSIVE Concat(_)
Concat(batches) ==
    IF batches = <<>> THEN <<>> ELSE Head(batches)[3] \o Concat(Tail(batches))

IsConsecutive(dates) == \A i \in 1..(Len(dates) - 1) : dates[i + 1] = dates[i] + 1

NoDuplicates(seq) == \A i, j \in 1..Len(seq) : seq[i] = seq[j] => i = j

\* C2: every batch returned by get_remaining_batches is a run of consecutive
\* calendar dates (each date one day after the previous one) and its
\* (start, end) are its first and last date.
C2_BatchesAreConsecutiveRuns ==
    (ret.op = "get_remaining_batches" /\ ret.batch_days >= 1) =>
        \A b \in 1..Len(ret.value) :
            LET batch == ret.value[b]
            IN /\ IsConsecutive(batch[3])
               /\ batch[1] = batch[3][1]
               /\ batch[2] = batch[3][Len(batch[3])]

\* C3: for a batch size k >= 1 the date lists of the returned batches,
\* concatenated, are the list get_remaining_dates returns (same order, no
\* duplicate, no gap); no batch is empty and none holds more than k dates.
C3_BatchesPartitionRemaining ==
    (ret.op = "get_remaining_batches" /\ ret.batch_days >= 1) =>
        /\ Concat(ret.value) = get_remaining_dates(progress, ret.start, ret.end)
        /\ NoDuplicates(Concat(ret.value))
        /\ \A b \in 1..Len(ret.value) :
               /\ Len(ret.value[b][3]) >= 1
               /\ Len(ret.value[b][3]) <= ret.batch_days

C3_Witness ==
    /\ ret.op = "get_remaining_batches"
    /\ ret.batch_days = 2
    /\ Len(ret.value) = 2
    /\ Len(ret.value[1][3]) = 2
    /\ Len(ret.value[2][3]) = 1

\* C4: get_remaining_dates(start, end) returns exactly the dates d with
\* start <= d <= end that are not completed, in ascending order (nothing
\* when end < start); a date that is only failed is still remaining.
C4_RemainingDatesExact ==
    ret.op = "get_remaining_dates" =>
        LET expected == {d \in ret.start..ret.end :
                            isoformat(d) \notin CompletedSet(progress)}
        IN /\ ToSet(ret.value) = expected
           /\ Len(ret.value) = Cardinality(expected)
           /\ \A i \in 1..(Len(ret.value) - 1) : ret.value[i] < ret.value[i + 1]
           /\ ret.end < ret.start => ret.value = <<>>
           /\ \A d \in ret.start..ret.end :
                  (isoformat(d) \in FailedSet(progress)
                   /\ isoformat(d) \notin CompletedSet(progress))
                      => Contains(ret.value, d)

C4_Witness ==
    /\ ret.op = "get_remaining_dates"
    /\ Len(ret.value) = NumDays - 1
    /\ \E d \in ret.start..ret.end : isoformat(d) \in CompletedSet(progress)
    /\ \E i \in 1..Len(ret.value) : isoformat(ret.value[i]) \in FailedSet(progress)

\* C5: mark_date_completed(date, count) is idempotent: a second call with the
\* same arguments leaves completed set, failed set and cumulative total as
\* the first call left them.
C5_MarkCompletedIdempotent ==
    [][\A d \in Dates, n \in Counts :
          (/\ ret = [op |-> "mark_date_completed", date |-> d, count |-> n]
           /\ \E o \in SaveOutcomes : MarkDateCompleted(d, n, o))
          => /\ CompletedSet(progress') = CompletedSet(progress)
             /\ FailedSet(progress') = FailedSet(progress)
             /\ progress'.total_records_ingested = progress.total_records_ingested
      ]_vars

\* C6: after mark_date_completed(D, n) on a remaining date D, D is no longer
\* returned by get_remaining_dates, every other date is remaining exactly
\* when it was before, D is not failed, and the total has grown by n.
C6_MarkCompletedEffect ==
    [][\A d \in Dates, n \in Counts :
          (/\ ret'.op = "mark_date_completed"
           /\ ret'.date = d
           /\ ret'.count = n
           /\ ~is_date_completed(progress, d)
           /\ \E o \in SaveOutcomes : MarkDateCompleted(d, n, o))
          => /\ \A s \in Dates, e \in Dates :
                    /\ ~Contains(get_remaining_dates(progress', s, e), d)
                    /\ ToSet(get_remaining_dates(progress', s, e))
                         = ToSet(get_remaining_dates(progress, s, e)) \ {d}
             /\ isoformat(d) \notin FailedSet(progress')
             /\ progress'.total_records_ingested
                  = progress.total_records_ingested + n
      ]_vars

C6_Witness ==
    /\ ret.op = "mark_date_completed"
    /\ ret.count > 0
    /\ Len(progress.completed_dates) = 2
    /\ progress.completed_dates[2] = isoformat(ret.date)
    /\ progress.total_records_ingested = ret.count

\* the file does not hold the tracker's state: the last save did not complete
SaveFailed == file # [state |-> "ok", content |-> progress]

\* C15: a save_progress that fails is not fatal: mark_date_completed and
\* mark_date_failed have applied their change in memory and returned, and a
\* later get_remaining_dates answers from the state in memory.
C15_SaveFailureNotFatal ==
    SaveFailed =>
        /\ ret.op = "mark_date_completed" =>
               /\ is_date_completed(progress, ret.date)
               /\ \A s \in Dates, e \in Dates :
                      ~Contains(get_remaining_dates(progress, s, e), ret.date)
        /\ ret.op = "mark_date_failed" =>
               isoformat(ret.date) \in FailedSet(progress)
        /\ ret.op = "get_remaining_dates" =>
               \A d \in Dates :
                   Contains(ret.value, d) <=>
                       (/\ d \in ret.start..ret.end
                        /\ isoformat(d) \notin CompletedSet(progress))

C15_Witness ==
    /\ file.state = "corrupt"
    /\ ret.op = "get_remaining_dates"
    /\ ncalls = 2
    /\ \E d \in ret.start..ret.end : is_date_completed(progress, d)
    /\ Len(ret.value) = 1

\* C16: mark_date_failed(date) is idempotent (a second call with the same
\* date leaves the completed list, the failed list and the total as they
\* were), and a mark_date_completed of a date of the failed set removes it
\* from the failed set.
C16_MarkFailedIdempotent ==
    [][/\ \A d \in Dates :
              (/\ ret = [op |-> "mark_date_failed", date |-> d]
               /\ ret' = ret
               /\ ncalls' = ncalls + 1
               /\ \E o \in SaveOutcomes : MarkDateFailed(d, o))
              => /\ progress'.completed_dates = progress.completed_dates
                 /\ progress'.failed_dates = progress.failed_dates
                 /\ progress'.total_records_ingested
                      = progress.total_records_ingested
       /\ \A d \in Dates, n \in Counts :
              (/\ ret' = [op |-> "mark_date_completed", date |-> d, count |-> n]
               /\ ncalls' = ncalls + 1
               /\ isoformat(d) \in FailedSet(progress)
               /\ \E o \in SaveOutcomes : MarkDateCompleted(d, n, o))
              => isoformat(d) \notin FailedSet(progress')
      ]_vars

C16_Witness ==
    /\ ncalls = 2
    /\ ret.op = "mark_date_failed"
    /\ progress.failed_dates = <<isoformat(ret.date)>>
    /\ progress.completed_dates = <<>>

\* C29: after any sequence of mark_date_completed and mark_date_failed calls
\* from an empty progress state no date is both completed and failed, and
\* neither list holds a date twice.
C29_CompletedAndFailedDisjoint ==
    /\ CompletedSet(progress) \cap FailedSet(progress) = {}
    /\ NoDuplicates(progress.completed_dates)
    /\ NoDuplicates(progress.failed_dates)

\* ---------------------------------------------------- API client properties
\* the arguments the validation is to refuse: an end before the start, a
\* start year before 2020, an end year after next year, a volume outside
\* 1..50000
InvalidCall(c) ==
    \/ /\ c.start_date.well_formed
       /\ c.end_date.well_formed
       /\ \/ before(c.end_date, c.start_date)
          \/ c.start_date.year < MinYear
          \/ c.end_date.year > ThisYear + 1
    \/ c.base_daily_volume \notin 1..MaxVolume

\* C17: get_bnpl_data called with an invalid date range or volume raises a
\* validation error at once: no request is sent and last_request_time (and
\* the clock: nothing slept) is as before the call.
C17_InvalidCallSendsNothing ==
    [][(api_calls' = api_calls + 1 /\ InvalidCall(api_call'))
          => /\ api_result' = ApiRaised("ValueError")
             /\ api_response' = NoResponse
             /\ posts' = posts
             /\ last_request_time' = last_request_time
             /\ now' = now
      ]_vars

C17_Witness ==
    /\ api_result = ApiRaised("ValueError")
    /\ api_call.start_date.well_formed
    /\ api_call.end_date.well_formed
    /\ api_call.start_date.year >= MinYear
    /\ api_call.start_date.year <= ThisYear + 1
    /\ before(api_call.end_date, api_call.start_date)
    /\ api_call.base_daily_volume = MaxVolume
    /\ api_calls = 2
    /\ posts = 1
    /\ last_request_time > 0

\* C25: test_connection returns True exactly when the API is accessible,
\* that is when the probe request for 2024-01-01 would be answered with at
\* least one record.
C25_ConnectionTestTellsAccess ==
    api_result.kind = "test_connection" =>
        (api_result.value <=> parse_response(api_call.would_answer).kind = "records")

IsParsedDataLine(l) == l.prefix /\ l.payload \in Payloads

\* the payloads of the 'data: ' lines that parse, in the order of the lines
ParsedPayloads(lines) ==
    LET sel == SelectSeq(lines, IsParsedDataLine)
    IN [k \in 1..Len(sel) |-> sel[k].payload]

\* C18: for a response with 'data: ' lines get_bnpl_data returns, in order,
\* exactly the records of the 'data: ' lines whose payload parses, skipping
\* the lines that do not; when no record results, from 'data: ' lines or
\* from a plain JSON body, it raises SimtomAPIError and returns no empty list.
C18_SseRecordsInOrder ==
    /\ api_result.kind = "records" => api_result.records # <<>>
    /\ (api_response.status = "ok" /\ has_data_token(api_response)) =>
           LET expected == ParsedPayloads(api_response.lines)
           IN IF expected = <<>>
              THEN api_result = ApiRaised("SimtomAPIError")
              ELSE api_result = [kind |-> "records", records |-> expected]
    /\ (/\ api_response.status = "ok"
        /\ ~has_data_token(api_response)
        /\ api_response.json.items = <<>>) =>
           api_result = ApiRaised("SimtomAPIError")

C18_Witness ==
    /\ api_response.status = "ok"
    /\ Len(api_response.lines) = 2
    /\ api_response.lines[1].prefix
    /\ api_response.lines[1].payload = "not_json"
    /\ api_result = [kind |-> "records", records |-> <<"a">>]

\* ----------------------------------------------------- overlay properties
\* the _upload_dataframe calls made for the experiment at a position
UploadsFor(position) ==
    SelectSeq(upload_calls, LAMBDA c : c.position = position)

\* C24: generate_production_overlays returns one result per experiment of
\* its list, and for each experiment that succeeds it makes exactly one
\* _upload_dataframe call, to the table synthetic_{experiment}_orders.
C24_OneUploadPerSuccess ==
    overlay_call.called =>
        /\ Len(overlay_results) = Len(overlay_call.experiments)
        /\ \A i \in 1..Len(overlay_results) :
              overlay_results[i].status = "success" =>
                  UploadsFor(i) =
                      <<upload_call(i, synthetic_table(overlay_call.experiments[i]))>>

C23_FirstShareThatMeetsValue ==
    assign_call # NoAssignCall =>
        LET c == assign_call
            hash == md5_mod(c.user_id, c.experiment_name)
            meets == {i \in 1..Len(c.allocation) :
                        hash <= SumSeq(SubSeq(c.allocation, 1, i)) * Tenth}
        IN /\ Contains(c.variants, assign_ret)
           /\ meets # {} => assign_ret = c.variants[MinOf(meets)]

\* ---------------------------------------------------- ML bridge properties
QueuedKeys == UNION {ToSet(redis_lists[db]["upload_queue"]) : db \in Databases}

CacheOps == {"cache_transaction", "cache_prediction"}

\* C21: cache_transaction and cache_prediction return True only after storing
\* the value under tx:{id} in database 0 (pred:{id} in database 1) with the
\* 7-day expiry and then pushing that key onto upload_queue; when a Redis
\* operation raises they return False, with nothing pushed, and the value
\* stored only when it was the push that raised.
C21_CacheStoresThenQueues ==
    [][(/\ ml_ret'.op \in CacheOps
        /\ redis_lists' # redis_lists \/ ml_ret' # ml_ret)
          => LET r == ml_ret'
                 db == IF r.op = "cache_transaction" THEN 0 ELSE 1
                 prefix == IF r.op = "cache_transaction" THEN "tx" ELSE "pred"
             IN /\ r.key.prefix = prefix
                /\ r.value <=> r.failed_at = "ok"
                /\ r.value =>
                      /\ r.key \in redis_cache'[db]
                      /\ r.ttl = 604800
                      /\ redis_lists' = [redis_lists EXCEPT
                            ![db]["upload_queue"] = <<r.key>> \o @]
                /\ ~r.value => redis_lists' = redis_lists
                /\ r.failed_at = "lpush_raised" => r.key \in redis_cache'[db]
                /\ r.failed_at \in {"select_raised", "setex_raised"}
                      => redis_cache' = redis_cache
      ]_vars

\* a prediction was cached and queued, then a second call failed at its push
C21_Witness ==
    /\ ml_ret.op = "cache_prediction"
    /\ ml_ret.failed_at = "lpush_raised"
    /\ ml_ret.key \in redis_cache[DB_PREDICTIONS]
    /\ redis_lists[DB_PREDICTIONS]["upload_queue"] = <<ml_ret.key>>

UploadReturned == ml_ret.op = "run_daily_upload"

\* C19: after a run_daily_upload in which both uploads succeed, upload_queue
\* holds none of the keys that were read from it and uploaded in that run.
C19_QueueDrainedAfterUpload ==
    (/\ UploadReturned
     /\ ml_ret.predictions_success
     /\ ml_ret.transactions_success)
        => ml_ret.uploaded \cap QueuedKeys = {}

\* C20: when a warehouse load raises during run_daily_upload, the result has
\* predictions_success or transactions_success False and its errors list is
\* not empty.
C20_LoadFailureIsReported ==
    (UploadReturned /\ ml_ret.load_raised) =>
        /\ ~ml_ret.predictions_success \/ ~ml_ret.transactions_success
        /\ ml_ret.errors # <<>>

\* C26: the clean-up of a run deletes from the cache only keys whose records
\* were uploaded in that run; a queued key whose value was not retrieved or
\* parsed keeps its value.
C26_CleanupDeletesOnlyUploaded ==
    UploadReturned => ml_ret.deleted \subseteq ml_ret.uploaded

\* ----------------------------------------------------- ingester properties
BatchInFlight == remaining_batches[batch_idx][3]

AllMarked(p, dates) ==
    \A k \in 1..Len(dates) : isoformat(dates[k]) \in CompletedSet(p)

\* C1: when an attempt of ingest_multi_day_batch that failed at any step
\* (fetch, validation, transform, load) returns, every date of its batch
\* that is not completed is in the failed set.
C1_FailedAttemptMarksDatesFailed ==
    pc = "batch_raised" =>
        \A k \in 1..Len(target_dates) :
            \/ isoformat(target_dates[k]) \in CompletedSet(progress)
            \/ isoformat(target_dates[k]) \in FailedSet(progress)

\* C7: a failing batch adds no date of another batch to the failed set and
\* removes no date from the completed set: while an attempt fails (from the
\* step that raises to the run loop catching it) only dates of its own batch
\* join the failed set and the completed set stays as it is.
C7_BatchFailureIsLocal ==
    [][(\/ pc = "mark_failed"
        \/ pc = "batch_raised"
        \/ (pc \in {"fetch", "load"} /\ pc' \in {"mark_failed", "batch_raised"}))
       => /\ CompletedSet(progress') = CompletedSet(progress)
          /\ \A d \in Dates :
                 (isoformat(d) \in FailedSet(progress') \ FailedSet(progress))
                     => Contains(BatchInFlight, d)
          /\ FailedSet(progress) \subseteq FailedSet(progress')
      ]_vars

C7_Witness ==
    /\ pc = "returned"
    /\ result.status = "partial"
    /\ result.successful = 1
    /\ result.failed = 1
    /\ isoformat(FirstDay) \in FailedSet(progress)
    /\ Len(remaining_batches[1][3]) = 2
    /\ AllMarked(progress, remaining_batches[2][3])

\* C8: a batch failure is not fatal: the batches of a run are attempted in
\* order, each exactly once, whatever the earlier outcomes, and the run
\* returns a summary that counts every batch.
C8_EveryBatchAttemptedOnce ==
    /\ attempts = [k \in 1..Len(attempts) |-> k]
    /\ pc \in InFlight => Len(attempts) \in {batch_idx - 1, batch_idx}
    /\ (pc = "returned" /\ remaining_batches # <<>>) =>
           /\ Len(attempts) = Len(remaining_batches)
           /\ result.status \in {"completed", "partial"}
           /\ result.successful + result.failed = Len(remaining_batches)
           /\ \A a, b \in 1..Len(remaining_batches) :
                  a < b => remaining_batches[a][2] < remaining_batches[b][1]

C8_Witness ==
    /\ pc = "returned"
    /\ result.status = "partial"
    /\ attempts = <<1, 2>>
    /\ isoformat(FirstDay) \notin CompletedSet(progress)
    /\ AllMarked(progress, remaining_batches[2][3])

\* C9 as claimed: whenever the load job finishes without a job error, every
\* date of the batch is marked completed, whatever the row counts.
C9_AnyLoadWithoutJobErrorCompletes ==
    (pc \in {"batch_returned", "batch_raised"} /\ load.job = "done") =>
        /\ pc = "batch_returned"
        /\ AllMarked(progress, target_dates)

\* C9: whenever the load job finishes without a job error and reports a
\* non-zero output_rows, and the count query returns a non-zero count, the
\* attempt returns with every date of the batch completed, also when either
\* count differs from the number of submitted records.
C9_NonZeroLoadCompletes ==
    (/\ pc \in {"batch_returned", "batch_raised"}
     /\ load.job = "done"
     /\ load.has_output_rows
     /\ load.output_rows # 0
     /\ load.query = "returned"
     /\ load.actual_rows # 0) =>
        /\ pc = "batch_returned"
        /\ AllMarked(progress, target_dates)

C9_Witness ==
    /\ pc = "batch_returned"
    /\ Len(target_dates) = 2
    /\ load.output_rows # n_records
    /\ load.actual_rows # n_records
    /\ AllMarked(progress, target_dates)

\* C10: after a termination with a batch in flight, the remaining dates of
\* the next invocation hold every date of that batch whose completion was
\* not marked and no date whose completion was persisted before.
C10_RestartResumesFromPersisted ==
    [][(pc = "terminated" /\ pc' = "constructed") =>
          LET remaining == ToSet(get_remaining_dates(progress', config.start_date,
                                                     config.end_date))
          IN /\ \A k \in 1..Len(target_dates) :
                    isoformat(target_dates[k]) \notin CompletedSet(progress)
                        => target_dates[k] \in remaining
             /\ \A d \in config.start_date..config.end_date :
                    isoformat(d) \in persisted => d \notin remaining
      ]_vars

\* The run that returns had two batches, of which the first returned and the
\* second raised: an attempt that returns has completed each of its dates,
\* one that raises has completed none.
FirstSucceededSecondFailed ==
    /\ pc = "returned"
    /\ Len(remaining_batches) = 2
    /\ result.status = "partial"
    /\ result.successful = 1
    /\ result.failed = 1
    /\ AllMarked(progress, remaining_batches[1][3])

\* the batches the next invocation finds, given the progress it loads
rerun_batches(loaded) == select_batches(start_ingestion(loaded), config)

\* C11: re-running the request after a run whose first batch succeeded and
\* whose second batch failed, at whatever step, finds exactly one remaining
\* batch, made of the dates of the failed batch only.
C11_RerunFindsFailedBatch ==
    [][(FirstSucceededSecondFailed /\ pc' = "constructed")
          => rerun_batches(progress') = <<remaining_batches[2]>>
      ]_vars

RangeDays(cfg) == cfg.end_date - cfg.start_date + 1

\* the number of batches of at most batch_days dates a full range makes
ExpectedBatches(cfg) == (RangeDays(cfg) + cfg.batch_days - 1) \div cfg.batch_days

\* C12: from an empty progress file, a run in which the API returns valid
\* records for every batch and the warehouse accepts every load makes one
\* API fetch and one load submission per batch of the range, reports the
\* number of records the API returned, and ends with exactly the dates of
\* the range completed and none failed.
C12_CleanRunCounts ==
    (pc = "returned" /\ runs = 1 /\ calls.all_accepted) =>
        /\ calls.api = ExpectedBatches(config)
        /\ calls.load = ExpectedBatches(config)
        /\ result.status = "completed"
        /\ result.total_records_ingested = calls.records
        /\ CompletedSet(progress)
             = {isoformat(d) : d \in config.start_date..config.end_date}
        /\ FailedSet(progress) = {}
        /\ io_faults = 0 => file = [state |-> "ok", content |-> progress]

C12_Witness ==
    /\ pc = "returned"
    /\ runs = 1
    /\ calls.all_accepted
    /\ config.batch_days = 2
    /\ calls.api = 2
    /\ calls.load = 2
    /\ calls.records = RangeDays(config)
    /\ Len(progress.completed_dates) = 3

\* C13: when nothing remains for the requested range, run_historical_ingestion
\* returns the 'nothing to do' result having made no API call and no
\* warehouse call of any kind in that invocation.
C13_NothingToDoMakesNoCall ==
    (pc = "returned" /\ result = nothing_to_do(progress)) => calls = ZeroCalls

\* C14: if a raw record of a batch has a missing or unparseable _timestamp
\* the attempt raises before the load: no load job is submitted for the
\* batch and none of its dates is marked completed.
C14_BadTimestampFailsClosed ==
    api_answer = "bad_timestamp" =>
        /\ pc \in {"mark_failed", "batch_raised"}
        /\ fault \in {"early_validation", "transform_error"}
        /\ load = NoLoad
        /\ Len(attempts) > calls.load
        /\ \A k \in 1..Len(target_dates) :
               isoformat(target_dates[k]) \notin CompletedSet(progress)

C14_Witness ==
    /\ api_answer = "bad_timestamp"
    /\ fault = "transform_error"
    /\ pc = "batch_raised"
    /\ Len(target_dates) = 2
    /\ \A k \in 1..Len(target_dates) :
           isoformat(target_dates[k]) \in FailedSet(progress)

\* the run just returned after fetches that all gave valid records and loads
\* the warehouse all accepted
CleanRunReturned ==
    /\ pc = "returned"
    /\ calls.api > 0
    /\ calls.all_accepted
    /\ result.status = "completed"

\* C27: the date range an attempt requests from the API holds no date that
\* was completed when the run computed its batches, that is only dates of
\* the batch, which were the remaining ones.
C27_RequestedRangeHoldsNoCompletedDate ==
    \A k \in 1..Len(attempts) :
        LET dates == remaining_batches[attempts[k]][3]
        IN requested_range(dates) \subseteq ToSet(dates)

\* C28: when the first run on an empty progress file returns, the tracker's
\* cumulative total, reported as overall_progress, equals the run summary's
\* total_records_ingested.
C28_TrackerTotalMatchesSummary ==
    (pc = "returned" /\ runs = 1) =>
        /\ result.overall_progress = progress.total_records_ingested
        /\ result.overall_progress = result.total_records_ingested

\* C30: after a run in which every fetch returned valid records and every
\* load succeeded, every date of the range is completed and none is failed,
\* and the next run over the same range finds no batch to process.
C30_CleanRunConverges ==
    [][(CleanRunReturned /\ pc' = "constructed") =>
          /\ \A d \in config.start_date..config.end_date :
                /\ isoformat(d) \in CompletedSet(progress)
                /\ isoformat(d) \notin FailedSet(progress)
          /\ rerun_batches(progress') = <<>>
      ]_vars

====
